---- MODULE Spec2Model ----
(***************************************************************************)
(* A model of src/sgns_implementation.py: the vocabulary / negative        *)
(* sampling table (make_ns_table, save_ns_table, load_ns_table), the       *)
(* context generator (SGNSContextGenerator), the inspection query          *)
(* SGNSModel.nearest_neighbors and the training loop (SGNSTrainer.train).  *)
(*                                                                         *)
(* Text is a sequence of character codes (32 = space, 10 = newline,        *)
(* 48..57 = digits, 65..90 = upper case, 97..122 = lower case), so that    *)
(* str.split, str.lower, int(), f-string formatting and string comparison  *)
(* are computed on characters, as the code computes them.                  *)
(***************************************************************************)
EXTENDS Integers, Sequences, FiniteSets, TLC

VARIABLES
    params,      \* the params dictionary handed to every component
    tpc,         \* position of the table pipeline of main()
    ns_table,    \* the list of (word, frequency, slots) triples
    file,        \* the text of params['ns-table-file']
    loaded,      \* what load_ns_table returned, or the exception it raised
    \* SGNSContextGenerator.batches: the generator's frame
    gen_pc,      \* where the generator stands
    widths,      \* the block of batch_size window widths
    width_ix,    \* the next width to read
    word_count,  \* self.word_count
    out_t,       \* targets of the batch being filled
    out_c,       \* contexts of the batch being filled
    line_no,     \* lines of the corpus read so far
    encoded,     \* the current line, pruned and encoded
    cur_i,       \* i: target position in encoded (0-based)
    cur_w,       \* w: the width read for position i
    cur_j,       \* j: context position in encoded (0-based)
    cur_end,     \* end: the end of range(start, end)
    \* SGNSTrainer
    train_pc,    \* where train() stands
    epoch,       \* self.epoch
    n_passes,    \* calls of instance_gen.batches() so far
    n_steps,     \* zero_grad / backward / optimizer.step rounds so far
    \* History of the current pass
    yielded,     \* the batches yielded, each <<out_t, out_c>>
    n_yielded,   \* batches yielded over all passes
    emitted,     \* every pair appended, with the line and positions it came from
    drawn,       \* every position that read a width, with that width
    enc_lines,   \* the pruned, encoded lines read
    \* SGNSModel
    emb,         \* self.w.weight: the target embedding of every index
    nn_pc,       \* where the inspection query stands
    nn_query,    \* the arguments of nearest_neighbors: <<word, n_neighbors>>
    nn_result    \* what nearest_neighbors returned, or the exception it raised

tableVars == <<params, tpc, ns_table, file, loaded>>

genVars == <<gen_pc, widths, width_ix, word_count, out_t, out_c, line_no, encoded, cur_i, cur_w, cur_j, cur_end>>

trainVars == <<train_pc, epoch, n_passes, n_steps>>

histVars == <<yielded, n_yielded, emitted, drawn, enc_lines>>

nnVars == <<emb, nn_pc, nn_query, nn_result>>

vars == <<tableVars, genVars, trainVars, histVars, nnVars>>

(***************************************************************************)
(* Bounds of the model.                                                    *)
(***************************************************************************)
MaxCorpusTokens == 3
MaxVocSize == 3
MaxFileFields == 4
MaxBatch == 2
MaxEpochs == 2
MaxNeighbors == 3

(***************************************************************************)
(* Text helpers: Python's str methods and comparisons.                     *)
(***************************************************************************)
Min(a, b) == IF a < b THEN a ELSE b
Max(a, b) == IF a > b THEN a ELSE b

\* str.isspace on one character (the characters the model's texts use).
IsSpace(c) == c \in {9, 10, 11, 12, 13, 32}

IsDigit(c) == c \in 48..57

\* str.lower
lower(s) == [k \in 1..Len(s) |-> IF s[k] \in 65..90 THEN s[k] + 32 ELSE s[k]]

RECURSIVE SplitAcc(_, _, _)
SplitAcc(s, cur, acc) ==
    IF s = <<>>
    THEN IF cur = <<>> THEN acc ELSE Append(acc, cur)
    ELSE IF IsSpace(Head(s))
         THEN SplitAcc(Tail(s), <<>>, IF cur = <<>> THEN acc ELSE Append(acc, cur))
         ELSE SplitAcc(Tail(s), Append(cur, Head(s)), acc)

\* str.split() without arguments: the maximal runs of non-whitespace.
split(s) == SplitAcc(s, <<>>, <<>>)

RECURSIVE LinesAcc(_, _, _)
LinesAcc(s, cur, acc) ==
    IF s = <<>>
    THEN IF cur = <<>> THEN acc ELSE Append(acc, cur)
    ELSE IF Head(s) = 10
         THEN LinesAcc(Tail(s), <<>>, Append(acc, Append(cur, 10)))
         ELSE LinesAcc(Tail(s), Append(cur, Head(s)), acc)

\* Iterating over an open text file: its lines, each with its newline.
readlines(text) == LinesAcc(text, <<>>, <<>>)

RECURSIVE StrLess(_, _)
\* a < b on Python strings: lexicographic on the code points.
StrLess(a, b) ==
    IF b = <<>> THEN FALSE
    ELSE IF a = <<>> THEN TRUE
    ELSE IF Head(a) # Head(b) THEN Head(a) < Head(b)
    ELSE StrLess(Tail(a), Tail(b))

RECURSIVE NatToStr(_)
NatToStr(n) == IF n < 10 THEN <<48 + n>> ELSE NatToStr(n \div 10) \o <<48 + (n % 10)>>

\* str(n) of an int, as the f-string of save_ns_table formats it.
IntToStr(n) == IF n < 0 THEN <<45>> \o NatToStr(0 - n) ELSE NatToStr(n)

\* Whether int(s) accepts s: an optional sign and at least one digit.
IsIntLiteral(s) ==
    LET body == IF s # <<>> /\ Head(s) \in {43, 45} THEN Tail(s) ELSE s
    IN  body # <<>> /\ \A k \in 1..Len(body) : IsDigit(body[k])

RECURSIVE DigitsToNat(_)
DigitsToNat(s) ==
    IF s = <<>> THEN 0 ELSE 10 * DigitsToNat(SubSeq(s, 1, Len(s) - 1)) + (s[Len(s)] - 48)

\* int(s) for an accepted literal.
StrToInt(s) ==
    IF Head(s) = 45 THEN 0 - DigitsToNat(Tail(s))
    ELSE IF Head(s) = 43 THEN DigitsToNat(Tail(s))
    ELSE DigitsToNat(s)

RECURSIVE Flatten(_)
Flatten(ss) == IF ss = <<>> THEN <<>> ELSE Head(ss) \o Flatten(Tail(ss))

RECURSIVE SumSeq(_)
SumSeq(s) == IF s = <<>> THEN 0 ELSE Head(s) + SumSeq(Tail(s))

\* Python's s[a:b] for 0 <= a, 0 <= b (0-based, end exclusive, clipped).
Slice(s, a, b) == SubSeq(s, a + 1, Min(b, Len(s)))

(***************************************************************************)
(* make_ns_table                                                           *)
(***************************************************************************)
\* Counter: a dictionary in insertion order, as a sequence of <<word, count>>.
CounterAdd(freqs, w) ==
    IF \E k \in 1..Len(freqs) : freqs[k][1] = w
    THEN [k \in 1..Len(freqs) |->
            IF freqs[k][1] = w THEN <<w, freqs[k][2] + 1>> ELSE freqs[k]]
    ELSE Append(freqs, <<w, 1>>)

RECURSIVE CounterUpdate(_, _)
\* Counter.update(tokens)
CounterUpdate(freqs, tokens) ==
    IF tokens = <<>> THEN freqs
    ELSE CounterUpdate(CounterAdd(freqs, Head(tokens)), Tail(tokens))

\* One line of a corpus pass: lowercase if asked, then split into tokens.
Tokens(line, lowercase) == split(IF lowercase THEN lower(line) ELSE line)

RECURSIVE CountLines(_, _, _)
\* The first loop of make_ns_table: the frequency table of the whole corpus.
CountLines(lines, lowercase, freqs) ==
    IF lines = <<>> THEN freqs
    ELSE CountLines(Tail(lines), lowercase,
                    CounterUpdate(freqs, Tokens(Head(lines), lowercase)))

\* A sort key that forgets the word: key=lambda p: p[1].
KeyLessFreqOnly(p, q) == p[2] < q[2]

\* key=lambda p: (p[1], p[0]) compared as Python compares tuples.
KeyLess(p, q) == p[2] < q[2] \/ (p[2] = q[2] /\ StrLess(p[1], q[1]))

RECURSIVE InsertDesc(_, _)
\* x put into a descending list behind every element that is not smaller.
InsertDesc(s, x) ==
    IF s = <<>> THEN <<x>>
    ELSE IF KeyLess(Head(s), x) THEN <<x>> \o s
    ELSE <<Head(s)>> \o InsertDesc(Tail(s), x)

RECURSIVE SortDescAcc(_, _)
SortDescAcc(items, acc) ==
    IF items = <<>> THEN acc ELSE SortDescAcc(Tail(items), InsertDesc(acc, Head(items)))

\* sorted(freqs.items(), key=..., reverse=True)
SortedFreqs(items) == SortDescAcc(items, <<>>)

\* The words beyond the cap counted, not their frequencies summed.
SumFreqPrunedCount(freqs_sorted, voc_size) ==
    IF Len(freqs_sorted) > voc_size - 1 THEN Len(freqs_sorted) - (voc_size - 1) ELSE 1

\* sum_freq_pruned: the frequencies beyond the cap, or 1 when nothing is beyond it.
SumFreqPruned(freqs_sorted, voc_size) ==
    IF Len(freqs_sorted) > voc_size - 1
    THEN SumSeq([k \in 1..(Len(freqs_sorted) - (voc_size - 1)) |->
                    freqs_sorted[voc_size - 1 + k][2]])
    ELSE 1

\* [(unk_str, sum_freq_pruned)] + freqs_sorted[:voc_size-1]
CappedFreqs(freqs_sorted, voc_size, unk_str) ==
    <<<<unk_str, SumFreqPruned(freqs_sorted, voc_size)>>>>
        \o Slice(freqs_sorted, 0, voc_size - 1)

RECURSIVE Pow(_, _)
\* freq ** ns_exp for the natural exponents of the model.
Pow(b, e) == IF e = 0 THEN 1 ELSE b * Pow(b, e - 1)

\* int(round(n / d)) for n >= 0, d > 0: Python 3 rounds a half to the even integer.
RoundHalfEven(n, d) ==
    LET q == n \div d
        r == n % d
    IN  IF 2 * r < d THEN q
        ELSE IF 2 * r > d THEN q + 1
        ELSE IF q % 2 = 0 THEN q ELSE q + 1

\* The table make_ns_table returns for params p.
make_ns_table(p) ==
    LET freqs == CountLines(readlines(p.corpus), p.lowercase, <<>>)
        freqs_sorted == CappedFreqs(SortedFreqs(freqs), p.voc_size, p.unknown_str)
        sum_freq == SumSeq([k \in 1..Len(freqs_sorted) |-> Pow(freqs_sorted[k][2], p.ns_exp)])
    IN  [k \in 1..Len(freqs_sorted) |->
            <<freqs_sorted[k][1], freqs_sorted[k][2],
              RoundHalfEven(Pow(freqs_sorted[k][2], p.ns_exp) * p.ns_table_size, sum_freq)>>]

(***************************************************************************)
(* save_ns_table / load_ns_table                                           *)
(***************************************************************************)
\* A record written with the frequency in the place of the slots.
FormatRecordFreqTwice(rec) ==
    rec[1] \o <<32>> \o IntToStr(rec[2]) \o <<32>> \o IntToStr(rec[2]) \o <<10>>

\* print(f'{w} {fr} {ns}', file=f): one record and its newline.
FormatRecord(rec) == rec[1] \o <<32>> \o IntToStr(rec[2]) \o <<32>> \o IntToStr(rec[3]) \o <<10>>

\* The text save_ns_table writes.
save_ns_table(table) == Flatten([k \in 1..Len(table) |-> FormatRecord(table[k])])

\* One iteration of load_ns_table: the triple, or the exception the line raises.
\* (t[0], int(t[1]), int(t[2])) is evaluated left to right.
ParseRecord(l) ==
    LET t == split(l)
    IN  IF Len(t) < 2 THEN [status |-> "IndexError"]
        ELSE IF ~IsIntLiteral(t[2]) THEN [status |-> "ValueError"]
        ELSE IF Len(t) < 3 THEN [status |-> "IndexError"]
        ELSE IF ~IsIntLiteral(t[3]) THEN [status |-> "ValueError"]
        ELSE [status |-> "ok", rec |-> <<t[1], StrToInt(t[2]), StrToInt(t[3])>>]

RECURSIVE LoadLinesSkipBad(_, _)
\* A loader that drops the records it cannot parse.
LoadLinesSkipBad(lines, out) ==
    IF lines = <<>> THEN [status |-> "ok", table |-> out]
    ELSE LET r == ParseRecord(Head(lines))
         IN  IF r.status = "ok" THEN LoadLinesSkipBad(Tail(lines), Append(out, r.rec))
             ELSE LoadLinesSkipBad(Tail(lines), out)

RECURSIVE LoadLines(_, _)
LoadLines(lines, out) ==
    IF lines = <<>> THEN [status |-> "ok", table |-> out]
    ELSE LET r == ParseRecord(Head(lines))
         IN  IF r.status = "ok" THEN LoadLines(Tail(lines), Append(out, r.rec))
             ELSE [status |-> r.status, table |-> <<>>]

\* What load_ns_table returns or raises for a file's text.
load_ns_table(text) == LoadLines(readlines(text), <<>>)

(***************************************************************************)
(* Inputs                                                                  *)
(***************************************************************************)
\* The words of the model's corpora: "a", "ab", "B".
CorpusWords == {<<97>>, <<97, 98>>, <<66>>}

RECURSIVE Interleave(_, _)
\* w1 s1 w2 s2 ... wk sk
Interleave(ws, seps) ==
    IF ws = <<>> THEN <<>>
    ELSE Head(ws) \o Head(seps) \o Interleave(Tail(ws), Tail(seps))

\* The texts of at most n words of W, each followed by a separator of Seps,
\* the last one by a newline or more.
TextsOf(W, Seps, n) ==
    UNION {{Interleave(ws, seps) :
                ws \in [1..k -> W],
                seps \in {f \in [1..k -> Seps] : k > 0 => f[k] # <<32>>}} : k \in 0..n}

\* Between two words of a corpus: a space, or the end of the line.
CorpusSeps == {<<32>>, <<10>>}

\* Between two fields of a table file: a space, the end of the line, or the
\* end of the line and a blank line.
FileSeps == {<<32>>, <<10>>, <<10, 10>>}

\* params['unknown-str'], here "<U>"
UnknownStr == <<60, 85, 62>>

\* The fields of the lines of a pre-existing table file: "w", "7".
FileFields == {<<119>>, <<55>>}

NoLoad == [status |-> "none", table |-> <<>>]

\* The parameters the table pipeline does not read.
RestOfParams == [batch_size |-> 1, context_width |-> 1, prune_threshold |-> <<1, 1000>>,
                 n_epochs |-> 0, n_neg_samples |-> 1, emb_dim |-> 2]

TableParams ==
    {[corpus |-> c, voc_size |-> v, lowercase |-> lc, ns_exp |-> e,
      ns_table_size |-> 40, unknown_str |-> UnknownStr] @@ RestOfParams :
        c \in TextsOf(CorpusWords, CorpusSeps, MaxCorpusTokens),
        v \in 1..MaxVocSize, lc \in BOOLEAN, e \in {0, 1}}

(***************************************************************************)
(* The table pipeline of main(): build and save the table when the file    *)
(* is absent, load it when it exists.                                      *)
(***************************************************************************)

\* The generator and the trainer before main() has built them.
GenIdle ==
    /\ gen_pc = "idle"
    /\ widths = <<>>
    /\ width_ix = 0
    /\ word_count = 0
    /\ out_t = <<>>
    /\ out_c = <<>>
    /\ line_no = 0
    /\ encoded = <<>>
    /\ cur_i = 0
    /\ cur_w = 0
    /\ cur_j = 0
    /\ cur_end = 0

TrainIdle ==
    /\ train_pc = "idle"
    /\ epoch = 0
    /\ n_passes = 0
    /\ n_steps = 0

HistIdle ==
    /\ yielded = <<>>
    /\ n_yielded = 0
    /\ emitted = <<>>
    /\ drawn = <<>>
    /\ enc_lines = <<>>

\* No model has been built.
ModelIdle ==
    /\ emb = <<>>
    /\ nn_pc = "idle"
    /\ nn_query = <<>>
    /\ nn_result = [status |-> "none", neighbors |-> <<>>]

TableInit ==
    /\ params \in TableParams
    /\ GenIdle /\ TrainIdle /\ HistIdle /\ ModelIdle
    /\ tpc = "absent"
    /\ ns_table = <<>>
    /\ file = <<>>
    /\ loaded = NoLoad

LoadInit ==
    /\ params \in {p \in TableParams : p.corpus = <<>> /\ p.voc_size = 1
                                        /\ p.lowercase /\ p.ns_exp = 1}
    /\ GenIdle /\ TrainIdle /\ HistIdle /\ ModelIdle
    /\ tpc = "exists"
    /\ ns_table = <<>>
    /\ file \in TextsOf(FileFields, FileSeps, MaxFileFields)
    /\ loaded = NoLoad

MakeNsTable ==
    /\ tpc = "absent"
    /\ ns_table' = make_ns_table(params)
    /\ tpc' = "made"
    /\ UNCHANGED <<params, file, loaded, genVars, trainVars, histVars, nnVars>>

SaveNsTable ==
    /\ tpc = "made"
    /\ file' = save_ns_table(ns_table)
    /\ tpc' = "exists"
    /\ UNCHANGED <<params, ns_table, loaded, genVars, trainVars, histVars, nnVars>>

LoadNsTable ==
    /\ tpc = "exists"
    /\ loaded' = load_ns_table(file)
    /\ tpc' = "loaded"
    /\ UNCHANGED <<params, ns_table, file, genVars, trainVars, histVars, nnVars>>

TableNext == MakeNsTable \/ SaveNsTable \/ LoadNsTable

SpecTable == TableInit /\ [][TableNext]_vars

LoadNext == LoadNsTable

SpecLoad == LoadInit /\ [][LoadNext]_vars

(***************************************************************************)
(* SGNSContextGenerator                                                    *)
(***************************************************************************)
CorpusLines == readlines(params.corpus)

\* The 1-based place of word t's last entry in the table, 0 when it has none
\* (a dict comprehension keeps the last of equal keys).
LastEntry(t) ==
    IF \E k \in 1..Len(ns_table) : ns_table[k][1] = t
    THEN CHOOSE k \in 1..Len(ns_table) :
            /\ ns_table[k][1] = t
            /\ \A m \in 1..Len(ns_table) : ns_table[m][1] = t => m <= k
    ELSE 0

\* self.voc.get(t, 0): the word's index, the sentinel's for an unknown word.
VocGet(t) == IF LastEntry(t) = 0 THEN 0 ELSE LastEntry(t) - 1

\* total_freq of __init__
TotalFreq == SumSeq([k \in 1..Len(ns_table) |-> ns_table[k][2]])

\* prune_probs.get(t, 0) > 0: 1 - sqrt(threshold * total_freq / f) > 0, with
\* the threshold a fraction <<numerator, denominator>>.
PruneProbPositive(t) ==
    /\ LastEntry(t) # 0
    /\ params.prune_threshold[1] * TotalFreq
          < ns_table[LastEntry(t)][2] * params.prune_threshold[2]

\* prune_probs.get(t, 0) >= 1: only when threshold * total_freq / f is 0.
PruneProbOne(t) == LastEntry(t) # 0 /\ params.prune_threshold[1] * TotalFreq = 0

\* The outcomes of prune(tokens): a token is kept when its uniform draw p in
\* [0, 1) is at least its pruning probability.
KeptMasks(tokens) ==
    {m \in [1..Len(tokens) -> BOOLEAN] :
        \A k \in 1..Len(tokens) :
            /\ ~PruneProbPositive(tokens[k]) => m[k]
            /\ PruneProbOne(tokens[k]) => ~m[k]}

RECURSIVE SelectKept(_, _)
SelectKept(tokens, m) ==
    IF tokens = <<>> THEN <<>>
    ELSE (IF Head(m) THEN <<Head(tokens)>> ELSE <<>>) \o SelectKept(Tail(tokens), Tail(m))

\* [ self.voc.get(t, 0) for t in pruned ]
Encode(tokens) == [k \in 1..Len(tokens) |-> VocGet(tokens[k])]

\* np.random.randint(1, self.ctx_width+1, size=self.batch_size)
WidthDraws == [1..params.batch_size -> 1..params.context_width]

\* A window that stops one position short: min(i+w, len(encoded)).
WindowEndShort(pi, pw, n) == Min(pi + pw, n)

\* A generator without the test j != i.
IsContextAlways(pi, pj) == TRUE

\* start = max(0, i-w)
WindowStart(pi, pw) == Max(0, pi - pw)

\* end = min(i+w+1, len(encoded))
WindowEnd(pi, pw, n) == Min(pi + pw + 1, n)

\* if j != i
IsContext(pi, pj) == pj # pi

\* if len(out_t) == self.batch_size
BatchFull(out) == Len(out) = params.batch_size

\* The first next() of a pass: the code of batches() before its line loop.
GenStart ==
    /\ gen_pc = "start"
    /\ widths' \in WidthDraws
    /\ width_ix' = 0
    /\ word_count' = 0
    /\ out_t' = <<>>
    /\ out_c' = <<>>
    /\ line_no' = 0
    /\ encoded' = <<>>
    /\ cur_i' = 0 /\ cur_w' = 0 /\ cur_j' = 0 /\ cur_end' = 0
    /\ gen_pc' = "line"
    /\ yielded' = <<>> /\ emitted' = <<>> /\ drawn' = <<>> /\ enc_lines' = <<>>
    /\ UNCHANGED <<nnVars, tableVars, trainVars, n_yielded>>

\* for line in f: the next line is tokenized, pruned and encoded; at the end
\* of the file the batch being filled is yielded if it holds a pair.
GenLine ==
    /\ gen_pc = "line"
    /\ IF line_no < Len(CorpusLines)
       THEN LET tokens == Tokens(CorpusLines[line_no + 1], params.lowercase)
            IN  \E m \in KeptMasks(tokens) :
                  /\ encoded' = Encode(SelectKept(tokens, m))
                  /\ word_count' = word_count + Len(tokens)
                  /\ line_no' = line_no + 1
                  /\ cur_i' = 0
                  /\ gen_pc' = "pos"
                  /\ enc_lines' = Append(enc_lines, encoded')
                  /\ UNCHANGED <<yielded, n_yielded>>
       ELSE /\ gen_pc' = IF Len(out_t) > 0 THEN "yield_last" ELSE "done"
            /\ yielded' = IF Len(out_t) > 0 THEN Append(yielded, <<out_t, out_c>>) ELSE yielded
            /\ n_yielded' = IF Len(out_t) > 0 THEN n_yielded + 1 ELSE n_yielded
            /\ UNCHANGED <<encoded, word_count, line_no, cur_i, enc_lines>>
    /\ UNCHANGED <<nnVars, tableVars, trainVars, widths, width_ix, out_t, out_c, cur_w, cur_j,
                   cur_end, emitted, drawn>>

\* for i, t in enumerate(encoded): the position reads its width and its window.
GenPos ==
    /\ gen_pc = "pos"
    /\ IF cur_i < Len(encoded)
       THEN IF width_ix >= Len(widths)
            THEN /\ gen_pc' = "IndexError"
                 /\ UNCHANGED <<cur_w, width_ix, cur_j, cur_end, drawn>>
            ELSE /\ cur_w' = widths[width_ix + 1]
                 /\ width_ix' = width_ix + 1
                 /\ cur_j' = WindowStart(cur_i, cur_w')
                 /\ cur_end' = WindowEnd(cur_i, cur_w', Len(encoded))
                 /\ drawn' = Append(drawn, <<line_no, cur_i, cur_w'>>)
                 /\ gen_pc' = "ctx"
       ELSE /\ gen_pc' = "line"
            /\ UNCHANGED <<cur_w, width_ix, cur_j, cur_end, drawn>>
    /\ UNCHANGED <<nnVars, tableVars, trainVars, widths, word_count, out_t, out_c, line_no, encoded,
                   cur_i, yielded, n_yielded, emitted, enc_lines>>

\* for j in range(start, end): one iteration, up to the yield of a full batch.
GenCtx ==
    /\ gen_pc = "ctx"
    /\ IF cur_j < cur_end
       THEN IF IsContext(cur_i, cur_j)
            THEN /\ out_t' = Append(out_t, encoded[cur_i + 1])
                 /\ out_c' = Append(out_c, encoded[cur_j + 1])
                 /\ emitted' = Append(emitted, <<encoded[cur_i + 1], encoded[cur_j + 1],
                                                 line_no, cur_i, cur_j>>)
                 /\ IF BatchFull(out_t')
                    THEN /\ gen_pc' = "yield"
                         /\ yielded' = Append(yielded, <<out_t', out_c'>>)
                         /\ n_yielded' = n_yielded + 1
                         /\ cur_j' = cur_j
                    ELSE /\ gen_pc' = "ctx"
                         /\ cur_j' = cur_j + 1
                         /\ UNCHANGED <<yielded, n_yielded>>
                 /\ cur_i' = cur_i
            ELSE /\ cur_j' = cur_j + 1
                 /\ gen_pc' = "ctx"
                 /\ UNCHANGED <<out_t, out_c, emitted, yielded, n_yielded, cur_i>>
       ELSE /\ cur_i' = cur_i + 1
            /\ gen_pc' = "pos"
            /\ UNCHANGED <<out_t, out_c, emitted, yielded, n_yielded, cur_j>>
    /\ UNCHANGED <<nnVars, tableVars, trainVars, widths, width_ix, word_count, line_no, encoded,
                   cur_w, cur_end, drawn, enc_lines>>

\* The generator resumed behind the yield of a full batch: widths are drawn
\* anew and the batch is reset; the loop over j goes on.
GenResume ==
    /\ gen_pc = "resume"
    /\ widths' \in WidthDraws
    /\ width_ix' = 0
    /\ out_t' = <<>>
    /\ out_c' = <<>>
    /\ cur_j' = cur_j + 1
    /\ gen_pc' = "ctx"
    /\ UNCHANGED <<nnVars, tableVars, trainVars, histVars, word_count, line_no, encoded, cur_i,
                   cur_w, cur_end>>

\* The generator resumed behind the yield of the final batch: it returns.
GenReturn ==
    /\ gen_pc = "resume_last"
    /\ gen_pc' = "done"
    /\ UNCHANGED <<nnVars, tableVars, trainVars, histVars, widths, width_ix, word_count, out_t,
                   out_c, line_no, encoded, cur_i, cur_w, cur_j, cur_end>>

(***************************************************************************)
(* SGNSTrainer                                                             *)
(***************************************************************************)
\* len(self.ns_table): the expanded table holds index i count_i times.
NsTableExpandedLen == SumSeq([k \in 1..Len(ns_table) |-> ns_table[k][3]])

\* train() is called: the while loop is entered when epochs remain.
TrainCall ==
    /\ train_pc \in {"idle", "returned"}
    /\ IF epoch < params.n_epochs
       THEN /\ train_pc' = "loop"
            /\ gen_pc' = "start"
            /\ n_passes' = n_passes + 1
       ELSE /\ train_pc' = "returned"
            /\ UNCHANGED <<gen_pc, n_passes>>
    /\ UNCHANGED <<nnVars, tableVars, histVars, epoch, n_steps, widths, width_ix, word_count, out_t,
                   out_c, line_no, encoded, cur_i, cur_w, cur_j, cur_end>>

\* The body of the for loop on one batch: negatives are drawn, gradients are
\* reset, the loss is computed and the optimizer steps; then the next batch
\* is asked for.
TrainBatch ==
    /\ train_pc = "loop"
    /\ gen_pc \in {"yield", "yield_last"}
    /\ IF NsTableExpandedLen = 0
       THEN /\ train_pc' = "raised"
            /\ UNCHANGED <<n_steps, gen_pc>>
       ELSE /\ n_steps' = n_steps + 1
            /\ gen_pc' = IF gen_pc = "yield" THEN "resume" ELSE "resume_last"
            /\ UNCHANGED train_pc
    /\ UNCHANGED <<nnVars, tableVars, histVars, epoch, n_passes, widths, width_ix,
                   word_count, out_t, out_c, line_no, encoded, cur_i, cur_w, cur_j, cur_end>>

\* The pass is exhausted: self.epoch += 1, and the while condition is tested.
EndPass ==
    /\ train_pc = "loop"
    /\ gen_pc = "done"
    /\ epoch' = epoch + 1
    /\ IF epoch' < params.n_epochs
       THEN /\ gen_pc' = "start"
            /\ n_passes' = n_passes + 1
            /\ UNCHANGED train_pc
       ELSE /\ train_pc' = "returned"
            /\ UNCHANGED <<gen_pc, n_passes>>
    /\ UNCHANGED <<nnVars, tableVars, histVars, n_steps, widths, width_ix, word_count,
                   out_t, out_c, line_no, encoded, cur_i, cur_w, cur_j, cur_end>>

\* The exception of the generator leaves the for loop and train().
PassRaises ==
    /\ train_pc = "loop"
    /\ gen_pc = "IndexError"
    /\ train_pc' = "raised"
    /\ UNCHANGED <<nnVars, tableVars, histVars, genVars, epoch, n_passes, n_steps>>

\* The words of the training corpora: "a", "b".
TrainWords == {<<97>>, <<98>>}

\* The parameters of a training run over the epoch counts of Epochs.
GenParams(Epochs) ==
    {[corpus |-> c, voc_size |-> 2, lowercase |-> TRUE, ns_exp |-> 1,
      ns_table_size |-> 40, unknown_str |-> UnknownStr,
      batch_size |-> b, context_width |-> 2, prune_threshold |-> <<1, 2>>,
      n_epochs |-> n, n_neg_samples |-> 1, emb_dim |-> 2] :
        c \in TextsOf(TrainWords, CorpusSeps, MaxCorpusTokens),
        b \in 1..MaxBatch, n \in Epochs}

\* main() up to trainer.train(): the table is built and saved, the generator
\* and the trainer are constructed.
Constructed ==
    /\ ns_table = make_ns_table(params)
    /\ file = save_ns_table(ns_table)
    /\ tpc = "exists"
    /\ loaded = NoLoad
    /\ GenIdle /\ TrainIdle /\ HistIdle /\ ModelIdle

\* A training run of one epoch: one pass of batches().
GenInit == params \in GenParams({1}) /\ Constructed

\* A training run of 0 to MaxEpochs epochs.
TrainInit == params \in GenParams(0..MaxEpochs) /\ Constructed

GenNext ==
    \/ GenStart \/ GenLine \/ GenPos \/ GenCtx \/ GenResume \/ GenReturn
    \/ TrainCall \/ TrainBatch \/ EndPass \/ PassRaises

SpecGen == GenInit /\ [][GenNext]_vars

SpecTrain == TrainInit /\ [][GenNext]_vars

(***************************************************************************)
(* SGNSModel.nearest_neighbors                                             *)
(***************************************************************************)
\* len(voc): the rows of self.w.weight
VocSize == Len(ns_table)

Dot(x, y) == SumSeq([d \in 1..Len(x) |-> x[d] * y[d]])

\* nn.CosineSimilarity of two vectors, x.y / max(|x| |y|, eps), as the fraction
\* <<sign(x.y) (x.y)^2, |x|^2 |y|^2>>: the square of the cosine with its sign,
\* which orders as the cosine does. A zero vector gives 0.
Cosine(x, y) ==
    IF Dot(x, x) * Dot(y, y) = 0 THEN <<0, 1>>
    ELSE <<(IF Dot(x, y) < 0 THEN 0 - 1 ELSE 1) * Dot(x, y) * Dot(x, y), Dot(x, x) * Dot(y, y)>>

\* a < b on two such fractions (the denominators are positive).
ScoreLess(a, b) == a[1] * b[2] < b[1] * a[2]

\* scores = sim_func(test_emb, all_emb): the row of the query index q.
Scores(q) == [x \in 0..(VocSize - 1) |-> Cosine(emb[q], emb[x])]

\* The outcomes of scores.topk(k): k different indices in descending order of
\* score, no index left out scoring above one taken; equal scores come in
\* whatever order the kernel leaves them.
TopK(sc, k) ==
    {ix \in [1..k -> DOMAIN sc] :
        /\ \A a, b \in 1..k : a < b => (ix[a] # ix[b] /\ ~ScoreLess(sc[ix[a]], sc[ix[b]]))
        /\ \A x \in DOMAIN sc :
              (\A a \in 1..k : ix[a] # x) => \A a \in 1..k : ~ScoreLess(sc[ix[a]], sc[x])}

\* self.ivoc[ix]
IVoc(ix) == ns_table[ix + 1][1]

\* near_nbr.indices[:, 1:] and near_nbr.values[:, 1:], as (word, value) pairs.
DropFirst(ix, sc) == [a \in 1..(Len(ix) - 1) |-> <<IVoc(ix[a + 1]), sc[ix[a + 1]]>>]

\* model.nearest_neighbors([word], n_neighbors)
NearestNeighbors ==
    /\ nn_pc = "ready"
    /\ \E word \in TrainWords \cup {UnknownStr}, n \in 0..MaxNeighbors :
          /\ nn_query' = <<word, n>>
          /\ IF LastEntry(word) = 0
             THEN nn_result' = [status |-> "KeyError", neighbors |-> <<>>]
             ELSE IF n = 0
             THEN nn_result' = [status |-> "AttributeError", neighbors |-> <<>>]
             ELSE IF n + 1 > VocSize
             THEN nn_result' = [status |-> "RuntimeError", neighbors |-> <<>>]
             ELSE \E ix \in TopK(Scores(VocGet(word)), n + 1) :
                     nn_result' = [status |-> "ok",
                                   neighbors |-> DropFirst(ix, Scores(VocGet(word)))]
    /\ nn_pc' = "returned"
    /\ UNCHANGED <<tableVars, genVars, trainVars, histVars, emb>>

\* The values of a coordinate of an embedding.
EmbValues == {0 - 1, 0, 1}

\* Corpora that give a vocabulary of two and of three entries: "a", "a b".
ModelCorpora == {<<97, 10>>, <<97, 32, 98, 10>>}

ModelParams ==
    {[corpus |-> c, voc_size |-> 3, lowercase |-> TRUE, ns_exp |-> 1,
      ns_table_size |-> 40, unknown_str |-> UnknownStr] @@ RestOfParams : c \in ModelCorpora}

\* main() behind training: a model whose target embeddings are any vectors.
ModelInit ==
    /\ params \in ModelParams
    /\ ns_table = make_ns_table(params)
    /\ file = save_ns_table(ns_table)
    /\ tpc = "exists"
    /\ loaded = NoLoad
    /\ GenIdle /\ TrainIdle /\ HistIdle
    /\ emb \in [0..(VocSize - 1) -> [1..params.emb_dim -> EmbValues]]
    /\ nn_pc = "ready"
    /\ nn_query = <<>>
    /\ nn_result = [status |-> "none", neighbors |-> <<>>]

ModelNext == NearestNeighbors

SpecModel == ModelInit /\ [][ModelNext]_vars

\* The sentinel's word is a word of the vocabulary like any other.
InVocabulary(word) == LastEntry(word) # 0

\* C6 as stated: for a query word of the vocabulary and 1 <= k < vocabulary
\* size, nearest_neighbors returns exactly k words in descending order of
\* similarity, none of them the query word.
C6_AsStated ==
    (/\ nn_pc = "returned"
     /\ InVocabulary(nn_query[1])
     /\ nn_query[2] >= 1
     /\ nn_query[2] < VocSize) =>
        /\ nn_result.status = "ok"
        /\ Len(nn_result.neighbors) = nn_query[2]
        /\ \A a, b \in 1..Len(nn_result.neighbors) :
              a < b => ~ScoreLess(nn_result.neighbors[a][2], nn_result.neighbors[b][2])
        /\ \A a \in 1..Len(nn_result.neighbors) : nn_result.neighbors[a][1] # nn_query[1]

(***************************************************************************)
(* Properties of a pass of batches() and of train()                        *)
(***************************************************************************)
\* The pairs of the batches yielded so far in this pass, in order.
YieldedPairs ==
    Flatten([b \in 1..Len(yielded) |->
                [k \in 1..Len(yielded[b][1]) |-> <<yielded[b][1][k], yielded[b][2][k]>>]])

EmittedPairs == [k \in 1..Len(emitted) |-> <<emitted[k][1], emitted[k][2]>>]

\* C3 as stated: no yielded pair has a target index equal to its context index.
C3_AsStated ==
    \A b \in 1..Len(yielded) : \A k \in 1..Len(yielded[b][1]) :
        yielded[b][1][k] # yielded[b][2][k]

\* C3 amended: every yielded pair is made of two DIFFERENT POSITIONS of one
\* pruned line (target position # context position); the two indices are equal
\* when the same word, or two unknown words, stand at the two positions.
C3_DistinctPositions ==
    LET yp == YieldedPairs
    IN  /\ Len(yp) <= Len(emitted)
        /\ \A k \in 1..Len(yp) :
              LET e == emitted[k]
                  enc == enc_lines[e[3]]
              IN  /\ yp[k] = <<e[1], e[2]>>
                  /\ e[4] # e[5]
                  /\ e[4] \in 0..(Len(enc) - 1)
                  /\ e[5] \in 0..(Len(enc) - 1)
                  /\ e[1] = enc[e[4] + 1]
                  /\ e[2] = enc[e[5] + 1]

\* A yielded pair of two positions that hold the same index.
C3_Witness ==
    /\ gen_pc = "done"
    /\ \E b \in 1..Len(yielded) : \E k \in 1..Len(yielded[b][1]) :
          yielded[b][1][k] = yielded[b][2][k]

RECURSIVE RangeSkipping(_, _, _)
\* lo, lo+1, ..., hi without skip, ascending.
RangeSkipping(lo, hi, skip) ==
    IF lo > hi THEN <<>>
    ELSE (IF lo = skip THEN <<>> ELSE <<lo>>) \o RangeSkipping(lo + 1, hi, skip)

\* The pairs claimed for a position d = <<line, i, w>>: one for each j of
\* [max(0, i-w), min(len-1, i+w)] but i, in increasing j.
ClaimedPairs(d) ==
    LET enc == enc_lines[d[1]]
        lo == IF d[2] - d[3] > 0 THEN d[2] - d[3] ELSE 0
        hi == IF d[2] + d[3] < Len(enc) - 1 THEN d[2] + d[3] ELSE Len(enc) - 1
        js == RangeSkipping(lo, hi, d[2])
    IN  [k \in 1..Len(js) |-> <<enc[d[2] + 1], enc[js[k] + 1], d[1], d[2], js[k]>>]

ClaimedPairsOfAll(ds) == Flatten([k \in 1..Len(ds) |-> ClaimedPairs(ds[k])])

\* The positions of the lines read so far, line by line, in increasing i.
PositionsOf(ls) == Flatten([l \in 1..Len(ls) |-> [k \in 1..Len(ls[l]) |-> <<l, k - 1>>]])

IsPrefix(a, b) == Len(a) <= Len(b) /\ a = SubSeq(b, 1, Len(a))

\* The contexts of the current position handled so far: those below this j.
ContextLimit ==
    IF gen_pc = "ctx" THEN cur_j
    ELSE IF gen_pc \in {"yield", "resume"} THEN cur_j + 1
    ELSE cur_end

\* C8: the pairs appended in a pass are, position after position in the order
\* of the lines and of i, exactly the pairs of the position's window under the
\* width it read, in increasing j; a batch yielded inside a window changes
\* neither the width nor the remaining pairs.
C8_WindowPairs ==
    /\ IsPrefix([k \in 1..Len(drawn) |-> <<drawn[k][1], drawn[k][2]>>], PositionsOf(enc_lines))
    /\ (gen_pc = "done" =>
          /\ Len(enc_lines) = Len(CorpusLines)
          /\ Len(drawn) = Len(PositionsOf(enc_lines)))
    /\ IF drawn = <<>> THEN emitted = <<>>
       ELSE LET before == SubSeq(drawn, 1, Len(drawn) - 1)
                last == drawn[Len(drawn)]
                Handled(e) == e[5] < ContextLimit
            IN  emitted = ClaimedPairsOfAll(before) \o SelectSeq(ClaimedPairs(last), Handled)

\* A pass that ended with a batch yielded inside the window of a position,
\* and with a position whose width 1 left a token of its line outside.
C8_Witness ==
    /\ gen_pc = "done"
    /\ \E k \in 1..(Len(emitted) - 1) :
          /\ k % params.batch_size = 0
          /\ emitted[k][3] = emitted[k + 1][3]
          /\ emitted[k][4] = emitted[k + 1][4]
    /\ \E k \in 1..Len(drawn) :
          /\ drawn[k][3] = 1
          /\ drawn[k][2] = 0
          /\ Len(enc_lines[drawn[k][1]]) = 3

\* The pass is over: the generator returned or raised.
PassOver == gen_pc \in {"done", "IndexError"}

\* C9 as stated: targets and contexts of a batch have one length, between 1
\* and batch_size, every batch but the last has batch_size pairs, and when the
\* pass is over the batches hold, in order, every pair generated.
C9_AsStated ==
    /\ \A b \in 1..Len(yielded) :
          /\ Len(yielded[b][1]) = Len(yielded[b][2])
          /\ Len(yielded[b][1]) \in 1..params.batch_size
          /\ b < Len(yielded) => Len(yielded[b][1]) = params.batch_size
    /\ PassOver => YieldedPairs = EmittedPairs

\* C10 as stated: whenever a position reads widths[width_ix], width_ix is
\* below batch_size, and no pass fails for lack of a width.
C10_AsStated ==
    /\ (gen_pc = "pos" /\ cur_i < Len(encoded)) => width_ix < params.batch_size
    /\ gen_pc # "IndexError"

\* C4 as stated: train() starts at epoch 0 and ends with epoch = n_epochs after
\* n_epochs passes and one optimizer step per yielded batch; called again, it
\* makes no pass and no step.
C4_AsStated ==
    /\ train_pc = "idle" => epoch = 0
    /\ train_pc \in {"returned", "raised"} =>
          /\ epoch = params.n_epochs
          /\ n_passes = params.n_epochs
          /\ n_steps = n_yielded

(***************************************************************************)
(* Properties of the table pipeline                                        *)
(***************************************************************************)
\* The tokens of the whole corpus, in order.
CorpusTokens ==
    LET ls == readlines(params.corpus)
    IN  Flatten([k \in 1..Len(ls) |-> Tokens(ls[k], params.lowercase)])

DistinctWords == {CorpusTokens[k] : k \in 1..Len(CorpusTokens)}

Occurrences(w) == Cardinality({k \in 1..Len(CorpusTokens) : CorpusTokens[k] = w})

\* The words the table keeps (behind the sentinel) and the words it leaves out.
KeptWords == {ns_table[k][1] : k \in 2..Len(ns_table)}

ExcludedWords == DistinctWords \ KeptWords

RECURSIVE SumOccurrences(_)
SumOccurrences(W) ==
    IF W = {} THEN 0
    ELSE LET w == CHOOSE x \in W : TRUE IN Occurrences(w) + SumOccurrences(W \ {w})

\* Word u goes before word v among words of equal frequency.
Before(u, v, descending) == IF descending THEN StrLess(v, u) ELSE StrLess(u, v)

\* The table has the claimed shape: the sentinel, then the top voc_size-1
\* distinct words with their frequencies, by descending frequency and, for
\* equal frequencies, in descending or ascending lexicographic order.
TableShape(descending) ==
    /\ Len(ns_table) = Min(Cardinality(DistinctWords) + 1, params.voc_size)
    /\ ns_table[1][1] = params.unknown_str
    /\ Cardinality(KeptWords) = Len(ns_table) - 1
    /\ \A k \in 2..Len(ns_table) :
          /\ ns_table[k][1] \in DistinctWords
          /\ ns_table[k][2] = Occurrences(ns_table[k][1])
    /\ \A k, m \in 2..Len(ns_table) :
          k < m => \/ ns_table[k][2] > ns_table[m][2]
                   \/ /\ ns_table[k][2] = ns_table[m][2]
                      /\ Before(ns_table[k][1], ns_table[m][1], descending)
    /\ \A x \in ExcludedWords : \A k \in 2..Len(ns_table) :
          \/ ns_table[k][2] > Occurrences(x)
          \/ /\ ns_table[k][2] = Occurrences(x)
             /\ Before(ns_table[k][1], x, descending)

\* C1 as stated: the sentinel first, then the top voc_size-1 distinct words by
\* descending frequency, words of equal frequency in (ascending) lexicographic
\* order, min(distinct_words + 1, voc_size) entries in all.
C1_AsStated == tpc # "absent" => TableShape(FALSE)

\* C1 amended: the sentinel first, then the top voc_size-1 distinct words by
\* descending frequency, words of equal frequency in DESCENDING lexicographic
\* order (the sort is reversed as a whole), min(distinct_words + 1, voc_size)
\* entries in all.
C1_TableOrder == tpc # "absent" => TableShape(TRUE)

\* A table with two kept words of equal frequency and a word left out.
C1_Witness ==
    /\ tpc = "made"
    /\ Len(ns_table) >= 3
    /\ ns_table[2][2] = ns_table[3][2]
    /\ ExcludedWords # {}

\* C2 as stated: the sentinel's frequency is the sum of the frequencies of the
\* excluded words, also when no word is excluded (the sum is then 0). The empty
\* corpus, for which the sentinel is documented to be 1, is left aside.
C2_AsStated ==
    (tpc # "absent" /\ CorpusTokens # <<>>) => ns_table[1][2] = SumOccurrences(ExcludedWords)

\* C2 amended: the sentinel's frequency is the sum of the frequencies of the
\* excluded words when at least one word is excluded, and 1 when none is.
C2_SentinelFreq ==
    tpc # "absent" =>
        ns_table[1][2] = IF ExcludedWords = {} THEN 1 ELSE SumOccurrences(ExcludedWords)

\* A word kept and two words left out, whose occurrences the sentinel sums.
C2_Witness ==
    /\ tpc = "made"
    /\ Cardinality(ExcludedWords) >= 2
    /\ ns_table[1][2] >= 2
    /\ Len(ns_table) >= 2

\* C5: loading the file save_ns_table wrote returns the saved list of triples.
C5_RoundTrip == tpc = "loaded" => loaded = [status |-> "ok", table |-> ns_table]

\* A table of three entries, one of them with a slot count of two digits, was
\* saved and loaded.
C5_Witness ==
    /\ tpc = "loaded"
    /\ Len(ns_table) >= 3
    /\ \E k \in 1..Len(ns_table) : ns_table[k][3] >= 10
    /\ loaded.status = "ok"

FileRecords == readlines(file)

FieldsOf(l) == split(l)

\* C7 as stated: a line whose field count is not exactly 3, or whose second or
\* third field is no integer, makes the load fail.
C7_AsStated ==
    tpc = "loaded" =>
        ((\E k \in 1..Len(FileRecords) :
             \/ Len(FieldsOf(FileRecords[k])) # 3
             \/ ~IsIntLiteral(FieldsOf(FileRecords[k])[2])
             \/ ~IsIntLiteral(FieldsOf(FileRecords[k])[3]))
         => loaded.status # "ok")

\* A line load_ns_table cannot read: fewer than three fields, or a second or
\* third field int() rejects.
Unreadable(l) ==
    \/ Len(FieldsOf(l)) < 3
    \/ ~IsIntLiteral(FieldsOf(l)[2])
    \/ ~IsIntLiteral(FieldsOf(l)[3])

\* C7 amended: the load fails, returning no table, exactly when some line has
\* fewer than three fields or a second or third field that is no integer; a
\* line with more than three fields is read and its extra fields are dropped.
C7_LoadFails ==
    tpc = "loaded" =>
        IF \E k \in 1..Len(FileRecords) : Unreadable(FileRecords[k])
        THEN loaded.status \in {"IndexError", "ValueError"} /\ loaded.table = <<>>
        ELSE /\ loaded.status = "ok"
             /\ Len(loaded.table) = Len(FileRecords)
             /\ \A k \in 1..Len(FileRecords) :
                   LET t == FieldsOf(FileRecords[k])
                   IN  loaded.table[k] = <<t[1], StrToInt(t[2]), StrToInt(t[3])>>

\* A file whose first line is a good record and whose second is not: the load
\* failed.
C7_Witness ==
    /\ tpc = "loaded"
    /\ Len(FileRecords) = 2
    /\ ~Unreadable(FileRecords[1])
    /\ Unreadable(FileRecords[2])
    /\ loaded.status # "ok"

====
